---------------------------- MODULE Spec2Model ----------------------------
(***************************************************************************)
(* A model of nombra: truncateContent, cleanTitle and sanitizeFilename,    *)
(* each a pure function with a specification of its own (SpecTruncate,     *)
(* SpecClean, SpecSanitize) that draws the argument and applies it;        *)
(* safeRenameFile with generateUniqueName over a directory (SpecRename);   *)
(* extractPDFContent with its two extractors (SpecExtract);                *)
(* extractTextFromPDF on texts about as long as the threshold of its       *)
(* no-spaces test (SpecStandard); extractTextViaOCR statement by statement *)
(* with its temporary directory (SpecOCR); and main from PreRun to the     *)
(* exit of the process (SpecMain).  FairSpecRename and FairSpecExtract add *)
(* the progress of the sequential code to SpecRename and SpecExtract.      *)
(*                                                                         *)
(* A Go string is modelled as a sequence of one-character strings.  Every  *)
(* character the model uses is a single byte except the typographic quote, *)
(* written "LDQUO", which stands for the rune U+201C: the functions that   *)
(* meet it (strings.Trim, the regular expressions, strings.TrimSpace) work *)
(* rune by rune.  "VT" stands for the vertical tab, which TLA+ strings     *)
(* cannot spell.                                                           *)
(***************************************************************************)
EXTENDS Integers, Sequences, FiniteSets, TLC

VARIABLES
    pc,                \* where the run is: "start", then the outcome of the call
    content,           \* truncateContent: its argument
    maxContentLength,  \* the package variable the --max-content-length flag sets
    truncated,         \* truncateContent: what it returned
    title,             \* cleanTitle: its argument
    cleaned,           \* cleanTitle: what it returned
    filename,          \* sanitizeFilename: its argument (safeRenameFile: title)
    sanitized,         \* sanitizeFilename: what it returned
    srcName,           \* safeRenameFile: the name of the file at originalPath
    files,             \* the directory of originalPath: name -> kind of entry
    filesBefore,       \* the directory as it was when safeRenameFile was called
    newPath,           \* safeRenameFile: newPath, a name in the directory
    counter,           \* generateUniqueName: counter
    renameErr,         \* safeRenameFile: the error it returned, "" for nil
    ocr,               \* the package variable the --ocr flag sets
    minContentLength,  \* the package variable the --min-content-length flag sets
    pdf,               \* extractTextFromPDF: what the pdf library reads at path
    calls,             \* extractPDFContent: the extractors it has called, in order
    stdResult,         \* what extractTextFromPDF returned
    ocrResult,         \* what extractTextViaOCR returned
    lastErr,           \* extractPDFContent: lastErr
    extracted,         \* extractPDFContent: the text it returned
    extractErr,        \* extractPDFContent: the error it returned
    tools,             \* extractTextViaOCR: what the tools do for the file at pdfPath
    tempDir,           \* extractTextViaOCR: tempDir: "none", "exists" or "removed"
    pageIndex,         \* extractTextViaOCR: the page image the loop is at
    ocrContent,        \* extractTextViaOCR: content
    stage,             \* main: the step of PreRun and Run the process is at
    apiKey,            \* main: apiKey after the --key flag, "" when it is not given
    envKey,            \* the environment variable OPENAI_API_KEY, "" when not set
    model,             \* the package variable the --model flag sets
    titleErr,          \* generateOpenAITitle: the error it returned
    printed,           \* what the process has printed, in order
    filePath,          \* main: args[0], the name of the file in its directory
    exitStatus         \* the exit status of the process, -1 while it runs

\* the variables of safeRenameFile and the file system
renameVars == <<srcName, files, filesBefore, newPath, counter, renameErr>>

\* the variables of extractPDFContent and the two extractors
extractVars == <<ocr, minContentLength, pdf, calls, stdResult, ocrResult, lastErr,
                 extracted, extractErr>>

\* the variables of the steps of extractTextViaOCR
ocrVars == <<tools, tempDir, pageIndex, ocrContent>>

\* the variables of main
mainVars == <<stage, apiKey, envKey, model, filePath, titleErr, printed, exitStatus>>

vars == <<pc, content, maxContentLength, truncated, title, cleaned, filename, sanitized,
          renameVars, extractVars, ocrVars, mainVars>>

\* no file is being renamed
RenameIdle ==
    /\ srcName = <<>>
    /\ files = <<>>
    /\ filesBefore = <<>>
    /\ newPath = <<>>
    /\ counter = 0
    /\ renameErr = ""

\* an error value: the chain of messages from the outermost error to its cause
nil == <<>>

\* an extractor that has not been called
NotCalled == [called |-> FALSE, text |-> <<>>, err |-> nil]

\* nothing is being extracted
ExtractIdle ==
    /\ ocr = FALSE
    /\ minContentLength = 10
    /\ pdf = <<>>
    /\ calls = <<>>
    /\ stdResult = NotCalled
    /\ ocrResult = NotCalled
    /\ lastErr = nil
    /\ extracted = <<>>
    /\ extractErr = nil

\* extractTextViaOCR is not being followed step by step
OCRIdle ==
    /\ tools = <<>>
    /\ tempDir = "none"
    /\ pageIndex = 0
    /\ ocrContent = <<>>

\* the functions are called on their own, not from main
MainIdle ==
    /\ stage = "none"
    /\ apiKey = ""
    /\ envKey = ""
    /\ model = ""
    /\ filePath = <<>>
    /\ titleErr = nil
    /\ printed = <<>>
    /\ exitStatus = -1

-----------------------------------------------------------------------------
(* Bounds of the model *)

\* the longest content string
MaxContentLen == 72
\* --max-content-length ranges over -NegMaxRange .. MaxContentLen
NegMaxRange == 2

-----------------------------------------------------------------------------
(* Go's slice expression s[lo:hi]: it panics unless 0 <= lo <= hi <= len(s) *)

SliceOK(s, lo, hi) == 0 <= lo /\ lo <= hi /\ hi <= Len(s)

Slice(s, lo, hi) == SubSeq(s, lo + 1, hi)

Returned(s) == [panic |-> FALSE, text |-> s]

Panicked == [panic |-> TRUE, text |-> <<>>]

-----------------------------------------------------------------------------
(* truncateContent *)

\* "... [content truncated]"
truncationSuffix ==
    << ".", ".", ".", " ", "[", "c", "o", "n", "t", "e", "n", "t", " ",
       "t", "r", "u", "n", "c", "a", "t", "e", "d", "]" >>

minKeep == 1

\* mutant: the identity test is strict, so content of exactly the maximum is cut
truncateContentStrict(c, max) ==
    IF Len(c) < max THEN Returned(c)
    ELSE LET available == max - Len(truncationSuffix) IN
         IF available < 2 * minKeep
         THEN IF SliceOK(c, 0, max) THEN Returned(Slice(c, 0, max)) ELSE Panicked
         ELSE LET keep == available \div 2 IN
              IF SliceOK(c, 0, keep) /\ SliceOK(c, Len(c) - keep, Len(c))
              THEN Returned(Slice(c, 0, keep) \o truncationSuffix
                            \o Slice(c, Len(c) - keep, Len(c)))
              ELSE Panicked

\* mutant: the half is rounded up, so an odd budget overshoots the maximum
truncateContentRoundUp(c, max) ==
    IF Len(c) <= max THEN Returned(c)
    ELSE LET available == max - Len(truncationSuffix) IN
         IF available < 2 * minKeep
         THEN IF SliceOK(c, 0, max) THEN Returned(Slice(c, 0, max)) ELSE Panicked
         ELSE LET keep == (available + 1) \div 2 IN
              IF SliceOK(c, 0, keep) /\ SliceOK(c, Len(c) - keep, Len(c))
              THEN Returned(Slice(c, 0, keep) \o truncationSuffix
                            \o Slice(c, Len(c) - keep, Len(c)))
              ELSE Panicked

\* mutant: the marker is left out, head and tail are joined directly
truncateContentNoMarker(c, max) ==
    IF Len(c) <= max THEN Returned(c)
    ELSE LET available == max - Len(truncationSuffix) IN
         IF available < 2 * minKeep
         THEN IF SliceOK(c, 0, max) THEN Returned(Slice(c, 0, max)) ELSE Panicked
         ELSE LET keep == available \div 2 IN
              IF SliceOK(c, 0, keep) /\ SliceOK(c, Len(c) - keep, Len(c))
              THEN Returned(Slice(c, 0, keep) \o Slice(c, Len(c) - keep, Len(c)))
              ELSE Panicked

\* mutant: the tail is the slice that follows the head, not the end of the content
truncateContentWrongTail(c, max) ==
    IF Len(c) <= max THEN Returned(c)
    ELSE LET available == max - Len(truncationSuffix) IN
         IF available < 2 * minKeep
         THEN IF SliceOK(c, 0, max) THEN Returned(Slice(c, 0, max)) ELSE Panicked
         ELSE LET keep == available \div 2 IN
              IF SliceOK(c, 0, keep) /\ SliceOK(c, keep, 2 * keep)
              THEN Returned(Slice(c, 0, keep) \o truncationSuffix
                            \o Slice(c, keep, 2 * keep))
              ELSE Panicked

truncateContent(c, max) ==
    IF Len(c) <= max THEN Returned(c)
    ELSE LET available == max - Len(truncationSuffix) IN
         IF available < 2 * minKeep
         THEN \* not enough space for both start and end: content[:maxContentLength]
              IF SliceOK(c, 0, max) THEN Returned(Slice(c, 0, max)) ELSE Panicked
         ELSE LET keep == available \div 2 IN
              IF SliceOK(c, 0, keep) /\ SliceOK(c, Len(c) - keep, Len(c))
              THEN Returned(Slice(c, 0, keep) \o truncationSuffix
                            \o Slice(c, Len(c) - keep, Len(c)))
              ELSE Panicked

-----------------------------------------------------------------------------
(* The content strings the model draws from *)

ContentChars == << "a", "b", "c", "d", "e" >>

\* n characters, cycling through ContentChars
PlainContent(n) == [i \in 1..n |-> ContentChars[((i - 1) % Len(ContentChars)) + 1]]

\* the same, with the text of the truncation marker written at offset p
MarkedContent(n, p) ==
    [i \in 1..n |-> IF p < i /\ i <= p + Len(truncationSuffix)
                    THEN truncationSuffix[i - p]
                    ELSE PlainContent(n)[i]]

Contents ==
    {PlainContent(n) : n \in 0..MaxContentLen}
    \cup UNION {{MarkedContent(n, p) : p \in 0..(n - Len(truncationSuffix))} :
                   n \in Len(truncationSuffix)..MaxContentLen}

MaxLengths == (0 - NegMaxRange)..MaxContentLen

-----------------------------------------------------------------------------
(* The call of truncateContent *)

InitTruncate ==
    /\ pc = "start"
    /\ OCRIdle
    /\ MainIdle
    /\ RenameIdle
    /\ ExtractIdle
    /\ content \in Contents
    /\ maxContentLength \in MaxLengths
    /\ truncated = <<>>
    /\ title = <<>>
    /\ cleaned = <<>>
    /\ filename = <<>>
    /\ sanitized = <<>>

TruncateContent ==
    /\ pc = "start"
    /\ LET r == truncateContent(content, maxContentLength) IN
         /\ pc' = IF r.panic THEN "panicked" ELSE "truncated"
         /\ truncated' = r.text
    /\ UNCHANGED <<content, maxContentLength, title, cleaned, filename, sanitized,
                 renameVars, extractVars,
                   ocrVars, mainVars>>

NextTruncate == TruncateContent

SpecTruncate == InitTruncate /\ [][NextTruncate]_vars

-----------------------------------------------------------------------------
(* cleanTitle *)

\* [a-z] and [A-Z] of the regular expression ([a-z])([A-Z])
LowerCase ==
    { "a", "b", "c", "d", "e", "f", "g", "h", "i", "j", "k", "l", "m", "n",
      "o", "p", "q", "r", "s", "t", "u", "v", "w", "x", "y", "z" }

UpperCase ==
    { "A", "B", "C", "D", "E", "F", "G", "H", "I", "J", "K", "L", "M", "N",
      "O", "P", "Q", "R", "S", "T", "U", "V", "W", "X", "Y", "Z" }

\* the cutset of strings.Trim(title, "\"' \t\n")
TrimCutset == { "\"", "'", " ", "\t", "\n" }

\* \s of Go's regexp (RE2): [\t\n\f\r ]
RegexpSpace == { "\t", "\n", "\f", "\r", " " }

\* unicode.IsSpace, which strings.TrimSpace uses (the characters of the model)
UnicodeSpace == { "\t", "\n", "VT", "\f", "\r", " " }

RECURSIVE DropWhile(_, _)
\* s without its longest prefix of characters of set
DropWhile(s, set) ==
    IF s # <<>> /\ s[1] \in set THEN DropWhile(Tail(s), set) ELSE s

Reverse(s) == [i \in 1..Len(s) |-> s[Len(s) + 1 - i]]

\* strings.Trim(s, cutset): all leading and trailing characters of cutset removed
Trim(s, cutset) == Reverse(DropWhile(Reverse(DropWhile(s, cutset)), cutset))

\* strings.TrimSpace(s)
TrimSpace(s) == Trim(s, UnicodeSpace)

\* strings.ReplaceAll(s, "\n", " ")
ReplaceNewlines(s) == [i \in 1..Len(s) |-> IF s[i] = "\n" THEN " " ELSE s[i]]

RECURSIVE SplitCamel(_)
\* regexp ([a-z])([A-Z]), ReplaceAllString "$1 $2": leftmost matches, not overlapping
SplitCamel(s) ==
    IF Len(s) < 2 THEN s
    ELSE IF s[1] \in LowerCase /\ s[2] \in UpperCase
         THEN <<s[1], " ", s[2]>> \o SplitCamel(Tail(Tail(s)))
         ELSE <<s[1]>> \o SplitCamel(Tail(s))

RECURSIVE CollapseSpace(_)
\* regexp \s+, ReplaceAllString " "
CollapseSpace(s) ==
    IF s = <<>> THEN <<>>
    ELSE IF s[1] \in RegexpSpace
         THEN <<" ">> \o CollapseSpace(DropWhile(s, RegexpSpace))
         ELSE <<s[1]>> \o CollapseSpace(Tail(s))

RECURSIVE SpaceDashes(_)
\* regexp \s*-\s*, ReplaceAllString " - ": a match starts at the first character
\* of a (possibly empty) run of \s that a hyphen follows, and takes the run of \s
\* after the hyphen
SpaceDashes(s) ==
    IF s = <<>> THEN <<>>
    ELSE LET rest == DropWhile(s, RegexpSpace) IN
         IF rest # <<>> /\ rest[1] = "-"
         THEN <<" ", "-", " ">> \o SpaceDashes(DropWhile(Tail(rest), RegexpSpace))
         ELSE <<s[1]>> \o SpaceDashes(Tail(s))

cleanTitle(t) ==
    LET trimmed   == Trim(t, TrimCutset)
        oneLine   == ReplaceNewlines(trimmed)
        split     == SplitCamel(oneLine)
        collapsed == CollapseSpace(split)
        dashed    == SpaceDashes(collapsed)
    IN  TrimSpace(dashed)

-----------------------------------------------------------------------------
(* The raw titles the model draws from *)

\* the longest raw title built from TitleChars
MaxTitleLen == 4

\* a lowercase letter, an uppercase letter, a hyphen, a straight quote, a space, a
\* newline, a carriage return and the typographic quote U+201C
TitleChars == { "a", "B", "-", "\"", " ", "\n", "\r", "LDQUO" }

\* all strings of at most n characters of chars
StringsUpTo(chars, n) == UNION {[1..k -> chars] : k \in 0..n}

\* "FooBar"
ExampleCamel ==
    << "F", "o", "o", "B", "a", "r" >>

\* " \"2024.03.31 -John Doe-Title\" \n"
ExampleDated ==
    << " ", "\"", "2", "0", "2", "4", ".", "0", "3", ".", "3", "1", " ",
       "-", "J", "o", "h", "n", " ", "D", "o", "e", "-", "T", "i", "t",
       "l", "e", "\"", " ", "\n" >>

\* "\"Title\"\r\n": a quoted title that ends with a CRLF line ending
ExampleCRLF ==
    << "\"", "T", "i", "t", "l", "e", "\"", "\r", "\n" >>

Titles == StringsUpTo(TitleChars, MaxTitleLen) \cup {ExampleCamel, ExampleDated, ExampleCRLF}

-----------------------------------------------------------------------------
(* The call of cleanTitle *)

InitClean ==
    /\ pc = "start"
    /\ OCRIdle
    /\ MainIdle
    /\ RenameIdle
    /\ ExtractIdle
    /\ title \in Titles
    /\ cleaned = <<>>
    /\ content = <<>>
    /\ maxContentLength = 0
    /\ truncated = <<>>
    /\ filename = <<>>
    /\ sanitized = <<>>

CleanTitle ==
    /\ pc = "start"
    /\ cleaned' = cleanTitle(title)
    /\ pc' = "cleaned"
    /\ UNCHANGED <<title, content, maxContentLength, truncated, filename, sanitized,
                 renameVars, extractVars,
                   ocrVars, mainVars>>

NextClean == CleanTitle

SpecClean == InitClean /\ [][NextClean]_vars

-----------------------------------------------------------------------------
(* sanitizeFilename *)

maxFilenameLength == 120

\* sanitizeRegex: [<>:"\/\\|?*]
sanitizeRegex == { "<", ">", ":", "\"", "/", "\\", "|", "?", "*" }

\* "untitled-document"
untitledDocument ==
    << "u", "n", "t", "i", "t", "l", "e", "d", "-",
       "d", "o", "c", "u", "m", "e", "n", "t" >>

\* reg.ReplaceAllString(s, ""): every character the expression matches is removed
RemoveMatches(s, set) == SelectSeq(s, LAMBDA c : c \notin set)

\* mutant: the character class lacks the asterisk
sanitizeFilenameKeepsStar(t) ==
    LET removed == RemoveMatches(t, sanitizeRegex \ {"*"})
        trimmed == TrimSpace(removed)
        clean   == IF Len(trimmed) > maxFilenameLength
                   THEN Slice(trimmed, 0, maxFilenameLength)
                   ELSE trimmed
    IN  IF clean = <<>> THEN untitledDocument ELSE clean

\* mutant: the cut keeps one character more than maxFilenameLength
sanitizeFilenameLongCut(t) ==
    LET removed == RemoveMatches(t, sanitizeRegex)
        trimmed == TrimSpace(removed)
        clean   == IF Len(trimmed) > maxFilenameLength
                   THEN Slice(trimmed, 0, maxFilenameLength + 1)
                   ELSE trimmed
    IN  IF clean = <<>> THEN untitledDocument ELSE clean

\* mutant: an empty result is returned as it is, without the fallback name
sanitizeFilenameNoFallback(t) ==
    LET removed == RemoveMatches(t, sanitizeRegex)
        trimmed == TrimSpace(removed)
    IN  IF Len(trimmed) > maxFilenameLength
        THEN Slice(trimmed, 0, maxFilenameLength)
        ELSE trimmed

sanitizeFilename(t) ==
    LET removed == RemoveMatches(t, sanitizeRegex)
        trimmed == TrimSpace(removed)
        clean   == IF Len(trimmed) > maxFilenameLength
                   THEN Slice(trimmed, 0, maxFilenameLength)
                   ELSE trimmed
    IN  IF clean = <<>> THEN untitledDocument ELSE clean

-----------------------------------------------------------------------------
(* The titles sanitizeFilename is given in the model *)

\* the longest title built freely from NameChars
MaxNameLen == 3
\* the long titles are within LongSlack characters of maxFilenameLength, plus a
\* character before and after
LongSlack == 2

\* two letters, a space, a tab and the nine characters of sanitizeRegex
NameChars == { "a", "b", " ", "\t" } \cup sanitizeRegex

\* n letters, "a" and "b" in turn
Filler(n) == [i \in 1..n |-> IF i % 2 = 1 THEN "a" ELSE "b"]

LongNames ==
    {pre \o Filler(n) \o post :
        pre \in StringsUpTo(NameChars, 1),
        n \in (maxFilenameLength - LongSlack)..(maxFilenameLength + LongSlack),
        post \in StringsUpTo(NameChars, 1)}

\* TestSanitizeFilename, InvalidCharactersRemoved
ExampleInvalidChars ==
    << "i", "n", "v", "a", "l", "<", "i", "d", ">", "f", "i", ":", "l",
       "e", "n", "a", "\"", "m", "e", "/", "w", "i", "t", "h", "\\", "b",
       "a", "d", "|", "c", "h", "a", "r", "s", "?", "*" >>

\* TestSanitizeFilename, TrimSpaces: "  My Document  "
ExampleTrimSpaces ==
    << " ", " ", "M", "y", " ", "D", "o", "c", "u", "m", "e", "n", "t",
       " ", " " >>

\* two words whose separating space or tab lies near the cut at maxFilenameLength
SpacedLongNames ==
    {Filler(n) \o << w >> \o Filler(LongSlack) :
        n \in (maxFilenameLength - LongSlack)..(maxFilenameLength + LongSlack),
        w \in {" ", "\t"}}

Names ==
    StringsUpTo(NameChars, MaxNameLen) \cup LongNames \cup SpacedLongNames
    \cup {ExampleInvalidChars, ExampleTrimSpaces}

-----------------------------------------------------------------------------
(* The call of sanitizeFilename *)

InitSanitize ==
    /\ pc = "start"
    /\ OCRIdle
    /\ MainIdle
    /\ RenameIdle
    /\ ExtractIdle
    /\ filename \in Names
    /\ sanitized = <<>>
    /\ content = <<>>
    /\ maxContentLength = 0
    /\ truncated = <<>>
    /\ title = <<>>
    /\ cleaned = <<>>

SanitizeFilename ==
    /\ pc = "start"
    /\ sanitized' = sanitizeFilename(filename)
    /\ pc' = "sanitized"
    /\ UNCHANGED <<filename, content, maxContentLength, truncated, title, cleaned,
                 renameVars, extractVars,
                   ocrVars, mainVars>>

NextSanitize == SanitizeFilename

SpecSanitize == InitSanitize /\ [][NextSanitize]_vars

-----------------------------------------------------------------------------
(* fmt.Sprintf(pattern, counter), as generateUniqueName calls it: one int     *)
(* operand.  The formats of the model hold no digit, "*" or "[", so widths,   *)
(* explicit precisions and argument indexes are not modelled; of the verbs    *)
(* that print an int only d, v and T occur.                                   *)

DecimalDigits == << "0", "1", "2", "3", "4", "5", "6", "7", "8", "9" >>

RECURSIVE Itoa(_)
\* n in decimal, with a minus sign when n < 0
Itoa(n) ==
    IF n < 0 THEN << "-" >> \o Itoa(0 - n)
    ELSE IF n < 10 THEN << DecimalDigits[n + 1] >>
    ELSE Itoa(n \div 10) \o << DecimalDigits[(n % 10) + 1] >>

\* the flags a verb may carry: # 0 + - and the space
FormatFlags == { "#", "0", "+", "-", " " }

\* "%!v(int=n)": the verb v is no verb of an int
BadVerb(v, n) == << "%", "!", v, "(", "i", "n", "t", "=" >> \o Itoa(n) \o << ")" >>

\* "%!v(MISSING)": the verb v has no operand left
MissingArg(v) == << "%", "!", v, "(", "M", "I", "S", "S", "I", "N", "G", ")" >>

\* "%!(NOVERB)": the format ends after a percent sign
NoVerb == << "%", "!", "(", "N", "O", "V", "E", "R", "B", ")" >>

\* "%!(EXTRA int=n)": the operand was never used
ExtraArg(n) ==
    << "%", "!", "(", "E", "X", "T", "R", "A", " ", "i", "n", "t", "=" >>
        \o Itoa(n) \o << ")" >>

\* printArg for an int operand
PrintArg(n, v) ==
    IF v \in {"d", "v"} THEN Itoa(n)
    ELSE IF v = "T" THEN << "i", "n", "t" >>   \* the type of the operand
    ELSE BadVerb(v, n)

RECURSIVE FormatFrom(_, _, _)
\* the output for the rest f of the format; used: the operand has been consumed
FormatFrom(format, n, used) ==
    \* f: the value of format, computed once for the call
    LET Out(f) ==
        IF f = <<>> THEN (IF used THEN <<>> ELSE ExtraArg(n))
        ELSE IF f[1] # "%"
        THEN \* the text before the next percent sign is copied
             LET percents == {i \in 1..Len(f) : f[i] = "%"}
                 next     == IF percents = {} THEN Len(f) + 1
                             ELSE CHOOSE i \in percents : \A j \in percents : i <= j
             IN  SubSeq(f, 1, next - 1) \o FormatFrom(SubSeq(f, next, Len(f)), n, used)
        ELSE LET afterFlags == DropWhile(Tail(f), FormatFlags)
                 \* a precision: a dot, here never followed by digits
                 afterPrec  == IF afterFlags # <<>> /\ afterFlags[1] = "."
                               THEN Tail(afterFlags) ELSE afterFlags
             IN  IF afterFlags # <<>> /\ afterFlags[1] \in LowerCase /\ ~used
                 THEN PrintArg(n, afterFlags[1]) \o FormatFrom(Tail(afterFlags), n, TRUE)
                 ELSE IF afterPrec = <<>> THEN NoVerb
                 ELSE IF afterPrec[1] = "%"
                      THEN \* percent does not absorb operands
                           << "%" >> \o FormatFrom(Tail(afterPrec), n, used)
                 ELSE IF used
                      THEN MissingArg(afterPrec[1]) \o FormatFrom(Tail(afterPrec), n, used)
                 ELSE PrintArg(n, afterPrec[1]) \o FormatFrom(Tail(afterPrec), n, TRUE)
    IN  CHOOSE out \in { Out(f) : f \in { format } } : TRUE

Sprintf(format, n) == FormatFrom(format, n, FALSE)

-----------------------------------------------------------------------------
(* Paths and the file system.  Every path of the model lies in the directory  *)
(* of originalPath and is written as its last element; titles hold no path    *)
(* separator once sanitized.  An entry of the directory is a regular file, or *)
(* a symbolic link that os.Stat cannot follow: "dangling" (the error is       *)
(* ErrNotExist) or "loop" (another error, such as ELOOP).                     *)

EntryKinds == { "file", "dangling", "loop" }

\* the index of the last dot among the first i characters of name, or 0
LastDot(name, i) ==
    LET dots == {j \in 1..i : name[j] = "."} IN
    IF dots = {} THEN 0 ELSE CHOOSE j \in dots : \A k \in dots : k <= j

\* filepath.Ext: the suffix that begins at the final dot, or ""
Ext(name) ==
    LET d == LastDot(name, Len(name)) IN
    IF d = 0 THEN <<>> ELSE SubSeq(name, d, Len(name))

\* filepath.Join(dir, name) is dir itself or its parent for these names
IsDirectoryItself(name) == name \in { << "." >>, << ".", "." >> }

\* os.Stat: "nil" (the file is there), "notexist" or "other" (another error)
Stat(fs, name) ==
    IF IsDirectoryItself(name) THEN "nil"
    ELSE IF name \notin DOMAIN fs THEN "notexist"
    ELSE IF fs[name] = "file" THEN "nil"
    ELSE IF fs[name] = "dangling" THEN "notexist"
    ELSE "other"

\* baseName of safeRenameFile: cleanTitle + ext, cut to maxFilenameLength
BaseName(clean, ext) ==
    LET baseName == clean \o ext IN
    IF Len(baseName) > maxFilenameLength
    THEN IF SliceOK(baseName, 0, maxFilenameLength - Len(ext))
         THEN Returned(Slice(baseName, 0, maxFilenameLength - Len(ext)) \o ext)
         ELSE Panicked
    ELSE Returned(baseName)

\* pattern of generateUniqueName, without the directory
UniquePattern(baseName, ext) == baseName \o << "-", "%", "d" >> \o ext

\* candidate of generateUniqueName
Candidate(baseName, ext, n) == Sprintf(UniquePattern(baseName, ext), n)

\* os.Rename: the entry of old moves to new and replaces what is there
Renamed(fs, old, new) ==
    [n \in (DOMAIN fs \ {old}) \cup {new} |-> IF n = new THEN fs[old] ELSE fs[n]]

-----------------------------------------------------------------------------
(* The calls of safeRenameFile the model draws from *)

\* the longest title built freely from RenameTitleChars
MaxRenameTitleLen == 2
\* the counters 1..MaxCounter of generateUniqueName may be occupied
MaxCounter == 2

\* a letter, a percent sign, a dot and an illegal character
RenameTitleChars == { "a", "%", ".", "*" }

\* TestSanitizeFilename, EmptyTitleWhitespace: "   \t  "
ExampleBlank == << " ", " ", " ", "\t", " ", " " >>

\* titles with path separators and dots: "/", "../", "../a" and "..\a"
TraversalTitles ==
    { << "/" >>, << ".", ".", "/" >>, << ".", ".", "/", "a" >>,
      << ".", ".", "\\", "a" >> }

\* "%T": the verb that prints the type of its operand
ExampleTypeVerb == << "%", "T" >>

RenameTitles ==
    StringsUpTo(RenameTitleChars, MaxRenameTitleLen)
    \cup {Filler(maxFilenameLength - 1), Filler(maxFilenameLength), ExampleBlank}
    \cup TraversalTitles \cup {ExampleTypeVerb}

\* a file whose extension is longer than maxFilenameLength
LongExtSource == << "s", "." >> \o Filler(maxFilenameLength)

\* "s.p", "s" and "a.p", and the file with the long extension
SourceNames ==
    { << "s", ".", "p" >>, << "s" >>, << "a", ".", "p" >>, LongExtSource }

\* the names safeRenameFile may look at for this title and source
CandidateNames(t, src) ==
    LET clean == sanitizeFilename(t)
        ext   == Ext(src)
        base  == BaseName(clean, ext)
    IN  [k \in 0..MaxCounter |->
            IF k = 0 THEN (IF base.panic THEN clean \o ext ELSE base.text)
            ELSE Candidate(clean, ext, k)]

\* the directories: each of these names is free or holds an entry of some kind,
\* and the source is a regular file
Directories(t, src) ==
    LET names == CandidateNames(t, src) IN
    {[n \in {names[k] : k \in {j \in 0..MaxCounter : kinds[j] # "free"}} \cup {src} |->
         IF n = src THEN "file"
         ELSE kinds[CHOOSE k \in 0..MaxCounter : names[k] = n /\ kinds[k] # "free"]]
     : kinds \in [0..MaxCounter -> EntryKinds \cup {"free"}]}

-----------------------------------------------------------------------------
(* safeRenameFile *)

InitRename ==
    /\ pc = "start"
    /\ OCRIdle
    /\ MainIdle
    /\ ExtractIdle
    /\ filename \in RenameTitles
    /\ srcName \in SourceNames
    /\ files \in Directories(filename, srcName)
    /\ filesBefore = files
    /\ sanitized = <<>>
    /\ newPath = <<>>
    /\ counter = 0
    /\ renameErr = ""
    /\ content = <<>>
    /\ maxContentLength = 0
    /\ truncated = <<>>
    /\ title = <<>>
    /\ cleaned = <<>>

\* safeRenameFile up to the os.Stat of newPath
SafeRenameFile ==
    /\ pc = "start"
    /\ srcName # <<>>
    /\ LET clean == sanitizeFilename(filename)
           ext   == Ext(srcName)
           base  == BaseName(clean, ext)
       IN  /\ sanitized' = clean
           /\ IF clean = <<>>
              THEN /\ renameErr' = "generated title results in invalid filename"
                   /\ pc' = "renameFailed"
                   /\ UNCHANGED <<newPath, counter>>
              ELSE IF base.panic
              THEN /\ pc' = "panicked"
                   /\ UNCHANGED <<newPath, counter, renameErr>>
              ELSE /\ newPath' = base.text
                   /\ IF Stat(files, base.text) = "nil"
                      THEN pc' = "unique" /\ counter' = 1
                      ELSE pc' = "rename" /\ UNCHANGED counter
                   /\ UNCHANGED renameErr
    /\ UNCHANGED <<content, maxContentLength, truncated, title, cleaned, filename,
                   srcName, files, filesBefore, extractVars,
                   ocrVars, mainVars>>

\* counter is an int: in the model its largest value is CounterCap and its
\* smallest -(CounterCap + 1), and counter++ wraps from the one to the other as
\* Go's int does at 2^63 - 1; the directories of the model take no name that
\* depends on a counter above MaxCounter
CounterCap == MaxCounter + 2

\* counter++
Increment(n) == IF n = CounterCap THEN 0 - (CounterCap + 1) ELSE n + 1

\* generateUniqueName: one turn of its loop
GenerateUniqueName ==
    /\ pc = "unique"
    /\ LET candidate == Candidate(sanitized, Ext(srcName), counter) IN
         IF Stat(files, candidate) = "notexist"
         THEN /\ newPath' = candidate
              /\ pc' = "rename"
              /\ UNCHANGED counter
         ELSE /\ counter' = Increment(counter)
              /\ UNCHANGED <<pc, newPath>>
    /\ UNCHANGED <<content, maxContentLength, truncated, title, cleaned, filename,
                   sanitized, srcName, files, filesBefore, renameErr, extractVars,
                   ocrVars, mainVars>>

\* os.Rename(originalPath, newPath) and the return of safeRenameFile; the
\* operating system may refuse the rename
RenameFile ==
    /\ pc = "rename"
    /\ \/ /\ files' = Renamed(files, srcName, newPath)
          /\ pc' = "renamed"
          /\ UNCHANGED renameErr
       \/ /\ renameErr' = "could not rename file"
          /\ pc' = "renameFailed"
          /\ UNCHANGED files
    /\ UNCHANGED <<content, maxContentLength, truncated, title, cleaned, filename,
                   sanitized, srcName, filesBefore, newPath, counter, extractVars,
                   ocrVars, mainVars>>

NextRename == SafeRenameFile \/ GenerateUniqueName \/ RenameFile

SpecRename == InitRename /\ [][NextRename]_vars

\* the loop of generateUniqueName runs on: a turn that can be taken is taken
FairSpecRename == SpecRename /\ WF_vars(GenerateUniqueName)

-----------------------------------------------------------------------------
(* Errors and the returns of the extractors.  An error is the chain of its    *)
(* messages, outermost first: fmt.Errorf("...: %w", err) puts a message       *)
(* before the chain of err.  The numbers and causes that the messages print   *)
(* are left out of the message text.                                          *)

\* fmt.Errorf(msg + ": %w", e)
Wrap(msg, e) == << msg >> \o e

\* return "", err
Failed(e) == [called |-> TRUE, text |-> <<>>, err |-> e]

\* return text, nil
Succeeded(t) == [called |-> TRUE, text |-> t, err |-> nil]

\* len(s): the bytes of s; the typographic quote U+201C takes three
ByteLen(s) == Len(s) + 2 * Cardinality({i \in DOMAIN s : s[i] = "LDQUO"})

\* strings.Contains(s, c) for a one-character c
Contains(s, c) == \E i \in DOMAIN s : s[i] = c

-----------------------------------------------------------------------------
(* validateContentLength *)

ErrBelowMinimum == << "extracted content length is below minimum required length" >>

\* mutant: a trimmed length equal to the minimum is refused
validateContentLengthStrict(c, min) ==
    IF ByteLen(TrimSpace(c)) <= min THEN ErrBelowMinimum ELSE nil

validateContentLength(c, min) ==
    IF ByteLen(TrimSpace(c)) < min THEN ErrBelowMinimum ELSE nil

-----------------------------------------------------------------------------
(* extractTextFromPDF.  What the pdf library reads: whether the file opens,   *)
(* and for each page whether it is null, fails, or gives a plain text.        *)

NullPage == [kind |-> "null", text |-> <<>>]

ErrorPage == [kind |-> "error", text |-> <<>>]

TextPage(t) == [kind |-> "text", text |-> t]

\* the threshold of the test for text without spaces
noSpaceThreshold == 500

ErrNoSpaces == << "text extraction failed: no spaces found in extracted text" >>

\* mutant: any whitespace character counts as a space
NoWhitespaceInLongText(c) ==
    ByteLen(c) > noSpaceThreshold /\ ~\E i \in DOMAIN c : c[i] \in UnicodeSpace

\* len(content.String()) > 500 && !strings.Contains(content.String(), " ")
NoSpacesInLongText(c) == ByteLen(c) > noSpaceThreshold /\ ~Contains(c, " ")

\* content after the loop over the first n pages: the trimmed text of every
\* page that is not null
RECURSIVE PagesText(_, _)
PagesText(pages, n) ==
    IF n = 0 THEN <<>>
    ELSE PagesText(pages, n - 1) \o
         (IF pages[n].kind = "null" THEN <<>> ELSE TrimSpace(pages[n].text))

extractTextFromPDF(doc) ==
    IF ~doc.opens THEN Failed(Wrap("failed to open PDF", << "pdf.Open" >>))
    ELSE IF Len(doc.pages) = 0 THEN Failed(<< "PDF appears to be empty" >>)
    ELSE IF \E i \in DOMAIN doc.pages : doc.pages[i].kind = "error"
    THEN Failed(Wrap("page text extraction failed", << "GetPlainText" >>))
    ELSE LET c == PagesText(doc.pages, Len(doc.pages)) IN
         IF Len(c) = 0 THEN Failed(<< "no extractable text found in PDF" >>)
         ELSE IF NoSpacesInLongText(c) THEN Failed(ErrNoSpaces)
         ELSE Succeeded(c)

-----------------------------------------------------------------------------
(* extractTextViaOCR.  What the tools do: whether the temporary directory is  *)
(* made, whether pdftoppm runs, and for each page image whether tesseract     *)
(* runs and what it prints.                                                   *)

TesseractFails == [ok |-> FALSE, out |-> <<>>]

TesseractPrints(t) == [ok |-> TRUE, out |-> t]

\* content after the loop over the first n page images: each output and "\n"
RECURSIVE OCRText(_, _)
OCRText(pages, n) ==
    IF n = 0 THEN <<>>
    ELSE OCRText(pages, n - 1) \o pages[n].out \o << "\n" >>

extractTextViaOCR(scan) ==
    IF ~scan.tempDir
    THEN Failed(Wrap("failed to create temp directory", << "os.MkdirTemp" >>))
    ELSE IF ~scan.converts THEN Failed(Wrap("pdftoppm failed", << "exit status" >>))
    ELSE IF Len(scan.pages) = 0 THEN Failed(<< "no pages converted from PDF" >>)
    ELSE IF \E i \in DOMAIN scan.pages : ~scan.pages[i].ok
    THEN Failed(Wrap("tesseract failed", << "exit status" >>))
    ELSE LET c == OCRText(scan.pages, Len(scan.pages)) IN
         IF Len(c) = 0 THEN Failed(<< "OCR extracted no text" >>)
         ELSE Succeeded(c)

-----------------------------------------------------------------------------
(* The documents the model draws from *)

\* the most pages a document has
MaxPages == 2
\* --min-content-length ranges over -NegMinRange .. MaxMinLength, and the default
NegMinRange == 1
MaxMinLength == 2

\* the texts of a page: empty, blank, a letter, a letter within whitespace, two
\* words, and nine and ten letters
PageTexts ==
    { <<>>, << " " >>, << "a" >>, << " ", "a", "\n" >>, << "a", " ", "a" >>,
      Filler(9), Filler(10) }

Pages == { NullPage, ErrorPage } \cup { TextPage(t) : t \in PageTexts }

PageImages == { TesseractFails } \cup { TesseractPrints(t) : t \in PageTexts }

Documents ==
    [opens : BOOLEAN, pages : UNION { [1..n -> Pages] : n \in 0..MaxPages }]

Scans ==
    [tempDir : BOOLEAN, converts : BOOLEAN,
     pages : UNION { [1..n -> PageImages] : n \in 0..MaxPages }]

MinLengths == ((0 - NegMinRange)..MaxMinLength) \cup { 10 }

-----------------------------------------------------------------------------
(* extractPDFContent *)

\* mutant: the loop tries OCR before the standard extractor
extractorsOCRFirst == << "OCR", "standard" >>

\* the extractors, in the order of the loop
extractors == << "standard", "OCR" >>

\* mutant: the forced OCR reports its failures inside the aggregate error
forcedReturnWrapped(r, min) ==
    IF r.err # nil
    THEN [text |-> <<>>, err |-> Wrap("all text extraction methods failed", r.err)]
    ELSE IF validateContentLength(r.text, min) # nil
    THEN [text |-> <<>>,
          err |-> Wrap("all text extraction methods failed",
                       validateContentLength(r.text, min))]
    ELSE [text |-> r.text, err |-> nil]

\* what extractPDFContent returns when ocr is set and extractTextViaOCR gave r
forcedReturn(r, min) ==
    IF r.err # nil THEN [text |-> <<>>, err |-> r.err]
    ELSE IF validateContentLength(r.text, min) # nil
    THEN [text |-> <<>>, err |-> validateContentLength(r.text, min)]
    ELSE [text |-> r.text, err |-> nil]

\* mutant: a text is returned only when no failure was recorded before it
attemptAfterCleanRunOnly(r, min, last) ==
    IF r.err # nil THEN [returns |-> FALSE, text |-> <<>>, lastErr |-> r.err]
    ELSE IF r.text # <<>>
    THEN IF validateContentLength(r.text, min) # nil
         THEN [returns |-> FALSE, text |-> <<>>,
               lastErr |-> validateContentLength(r.text, min)]
         ELSE [returns |-> last = nil, text |-> r.text, lastErr |-> last]
    ELSE [returns |-> FALSE, text |-> <<>>, lastErr |-> last]

\* mutant: a text that is not empty is returned without validation
attemptNoValidation(r, min, last) ==
    IF r.err # nil THEN [returns |-> FALSE, text |-> <<>>, lastErr |-> r.err]
    ELSE IF r.text # <<>>
    THEN [returns |-> TRUE, text |-> r.text, lastErr |-> last]
    ELSE [returns |-> FALSE, text |-> <<>>, lastErr |-> last]

\* mutant: lastErr keeps the first failure
attemptKeepsFirstError(r, min, last) ==
    IF r.err # nil
    THEN [returns |-> FALSE, text |-> <<>>,
          lastErr |-> IF last = nil THEN r.err ELSE last]
    ELSE IF r.text # <<>>
    THEN IF validateContentLength(r.text, min) # nil
         THEN [returns |-> FALSE, text |-> <<>>,
               lastErr |-> IF last = nil
                           THEN validateContentLength(r.text, min) ELSE last]
         ELSE [returns |-> TRUE, text |-> r.text, lastErr |-> last]
    ELSE [returns |-> FALSE, text |-> <<>>, lastErr |-> last]

\* one turn of the loop, the extractor having given r: the function returns the
\* text, or the loop goes on with lastErr
attempt(r, min, last) ==
    IF r.err # nil THEN [returns |-> FALSE, text |-> <<>>, lastErr |-> r.err]
    ELSE IF r.text # <<>>
    THEN IF validateContentLength(r.text, min) # nil
         THEN [returns |-> FALSE, text |-> <<>>,
               lastErr |-> validateContentLength(r.text, min)]
         ELSE [returns |-> TRUE, text |-> r.text, lastErr |-> last]
    ELSE [returns |-> FALSE, text |-> <<>>, lastErr |-> last]

\* the error after the loop
allFailed(last) ==
    IF last # nil THEN Wrap("all text extraction methods failed", last)
    ELSE << "no text could be extracted from the PDF" >>

InitExtract ==
    /\ pc = "start"
    /\ OCRIdle
    /\ MainIdle
    /\ RenameIdle
    /\ ocr \in BOOLEAN
    /\ minContentLength \in MinLengths
    /\ pdf = <<>>
    /\ calls = <<>>
    /\ stdResult = NotCalled
    /\ ocrResult = NotCalled
    /\ lastErr = nil
    /\ extracted = <<>>
    /\ extractErr = nil
    /\ content = <<>>
    /\ maxContentLength = 0
    /\ truncated = <<>>
    /\ title = <<>>
    /\ cleaned = <<>>
    /\ filename = <<>>
    /\ sanitized = <<>>

\* the entry of extractPDFContent: the test of ocr
ExtractPDFContent ==
    /\ pc = "start"
    /\ calls = <<>>
    /\ pc' = IF ocr THEN "forcedOCR" ELSE "extractors"
    /\ UNCHANGED <<content, maxContentLength, truncated, title, cleaned, filename,
                   sanitized, renameVars, extractVars,
                   ocrVars, mainVars>>

\* ocr is set: extractTextViaOCR, validateContentLength and the return
ForcedOCR ==
    /\ pc = "forcedOCR"
    /\ \E scan \in Scans :
         LET r   == extractTextViaOCR(scan)
             ret == forcedReturn(r, minContentLength)
         IN  /\ ocrResult' = r
             /\ calls' = Append(calls, "OCR")
             /\ extracted' = ret.text
             /\ extractErr' = ret.err
             /\ pc' = IF ret.err = nil THEN "extracted" ELSE "extractFailed"
    /\ UNCHANGED <<content, maxContentLength, truncated, title, cleaned, filename,
                   sanitized, renameVars, ocr, minContentLength, pdf, stdResult,
                   lastErr,
                   ocrVars, mainVars>>

\* the turn of the loop for the standard extractor
TryStandard ==
    /\ pc = "extractors"
    /\ Len(calls) < Len(extractors)
    /\ extractors[Len(calls) + 1] = "standard"
    /\ \E doc \in Documents :
         LET r == extractTextFromPDF(doc)
             a == attempt(r, minContentLength, lastErr)
         IN  /\ stdResult' = r
             /\ calls' = Append(calls, "standard")
             /\ lastErr' = a.lastErr
             /\ extracted' = a.text
             /\ pc' = IF a.returns THEN "extracted" ELSE "extractors"
    /\ UNCHANGED <<content, maxContentLength, truncated, title, cleaned, filename,
                   sanitized, renameVars, ocr, minContentLength, pdf, ocrResult,
                   extractErr,
                   ocrVars, mainVars>>

\* the turn of the loop for the OCR extractor
TryOCR ==
    /\ pc = "extractors"
    /\ Len(calls) < Len(extractors)
    /\ extractors[Len(calls) + 1] = "OCR"
    /\ \E scan \in Scans :
         LET r == extractTextViaOCR(scan)
             a == attempt(r, minContentLength, lastErr)
         IN  /\ ocrResult' = r
             /\ calls' = Append(calls, "OCR")
             /\ lastErr' = a.lastErr
             /\ extracted' = a.text
             /\ pc' = IF a.returns THEN "extracted" ELSE "extractors"
    /\ UNCHANGED <<content, maxContentLength, truncated, title, cleaned, filename,
                   sanitized, renameVars, ocr, minContentLength, pdf, stdResult,
                   extractErr,
                   ocrVars, mainVars>>

\* the loop is over: every extractor has been tried
AllFailed ==
    /\ pc = "extractors"
    /\ Len(calls) = Len(extractors)
    /\ extractErr' = allFailed(lastErr)
    /\ pc' = "extractFailed"
    /\ UNCHANGED <<content, maxContentLength, truncated, title, cleaned, filename,
                   sanitized, renameVars, ocr, minContentLength, pdf, calls,
                   stdResult, ocrResult, lastErr, extracted,
                   ocrVars, mainVars>>

NextExtract == ExtractPDFContent \/ ForcedOCR \/ TryStandard \/ TryOCR \/ AllFailed

SpecExtract == InitExtract /\ [][NextExtract]_vars

\* extractPDFContent runs on: the call is one sequential function, and every step
\* that can be taken is taken
FairSpecExtract == SpecExtract /\ WF_vars(NextExtract)

-----------------------------------------------------------------------------
(* extractTextViaOCR, step by step, with its temporary directory.  The call   *)
(* returns to extractPDFContent and main, which end the process only after    *)
(* the return.                                                                *)

\* mutant: the directory is removed on the successful return only
removeAllOnSuccessOnly(dir, r) == IF r.err = nil THEN "removed" ELSE dir

\* defer os.RemoveAll(tempDir): the directory after the call returned r
deferredRemoveAll(dir, r) == "removed"

InitOCR ==
    /\ pc = "start"
    /\ MainIdle
    /\ RenameIdle
    /\ ExtractIdle
    /\ tools \in Scans
    /\ tempDir = "none"
    /\ pageIndex = 0
    /\ ocrContent = <<>>
    /\ content = <<>>
    /\ maxContentLength = 0
    /\ truncated = <<>>
    /\ title = <<>>
    /\ cleaned = <<>>
    /\ filename = <<>>
    /\ sanitized = <<>>

\* os.MkdirTemp, and the defer statement when it succeeded
MkdirTemp ==
    /\ pc = "start"
    /\ tools # <<>>
    /\ IF tools.tempDir
       THEN /\ tempDir' = "exists"
            /\ pc' = "pdftoppm"
            /\ UNCHANGED ocrResult
       ELSE /\ ocrResult' = Failed(Wrap("failed to create temp directory",
                                        << "os.MkdirTemp" >>))
            /\ pc' = "ocrReturned"
            /\ UNCHANGED tempDir
    /\ UNCHANGED <<content, maxContentLength, truncated, title, cleaned, filename,
                   sanitized, renameVars, ocr, minContentLength, pdf, calls,
                   stdResult, lastErr, extracted, extractErr, tools, pageIndex,
                   ocrContent, mainVars>>

\* pdftoppm writes the page images into the directory
Pdftoppm ==
    /\ pc = "pdftoppm"
    /\ IF tools.converts
       THEN /\ pc' = "glob"
            /\ UNCHANGED ocrResult
       ELSE /\ ocrResult' = Failed(Wrap("pdftoppm failed", << "exit status" >>))
            /\ pc' = "ocrDeferred"
    /\ UNCHANGED <<content, maxContentLength, truncated, title, cleaned, filename,
                   sanitized, renameVars, ocr, minContentLength, pdf, calls,
                   stdResult, lastErr, extracted, extractErr, ocrVars, mainVars>>

\* filepath.Glob and the test for no pages
GlobPages ==
    /\ pc = "glob"
    /\ IF Len(tools.pages) = 0
       THEN /\ ocrResult' = Failed(<< "no pages converted from PDF" >>)
            /\ pc' = "ocrDeferred"
            /\ UNCHANGED pageIndex
       ELSE /\ pageIndex' = 1
            /\ pc' = "tesseract"
            /\ UNCHANGED ocrResult
    /\ UNCHANGED <<content, maxContentLength, truncated, title, cleaned, filename,
                   sanitized, renameVars, ocr, minContentLength, pdf, calls,
                   stdResult, lastErr, extracted, extractErr, tools, tempDir,
                   ocrContent, mainVars>>

\* one turn of the loop over the page images: tesseract on one page
Tesseract ==
    /\ pc = "tesseract"
    /\ pageIndex <= Len(tools.pages)
    /\ IF tools.pages[pageIndex].ok
       THEN /\ ocrContent' = ocrContent \o tools.pages[pageIndex].out \o << "\n" >>
            /\ pageIndex' = pageIndex + 1
            /\ UNCHANGED <<pc, ocrResult>>
       ELSE /\ ocrResult' = Failed(Wrap("tesseract failed", << "exit status" >>))
            /\ pc' = "ocrDeferred"
            /\ UNCHANGED <<pageIndex, ocrContent>>
    /\ UNCHANGED <<content, maxContentLength, truncated, title, cleaned, filename,
                   sanitized, renameVars, ocr, minContentLength, pdf, calls,
                   stdResult, lastErr, extracted, extractErr, tools, tempDir,
                   mainVars>>

\* the loop is over: the test of content.Len() and the return statement
ReturnContent ==
    /\ pc = "tesseract"
    /\ pageIndex > Len(tools.pages)
    /\ ocrResult' = IF Len(ocrContent) = 0
                    THEN Failed(<< "OCR extracted no text" >>)
                    ELSE Succeeded(ocrContent)
    /\ pc' = "ocrDeferred"
    /\ UNCHANGED <<content, maxContentLength, truncated, title, cleaned, filename,
                   sanitized, renameVars, ocr, minContentLength, pdf, calls,
                   stdResult, lastErr, extracted, extractErr, ocrVars, mainVars>>

\* the deferred os.RemoveAll(tempDir) runs and the call returns
DeferredRemoveAll ==
    /\ pc = "ocrDeferred"
    /\ tempDir' = deferredRemoveAll(tempDir, ocrResult)
    /\ pc' = "ocrReturned"
    /\ UNCHANGED <<content, maxContentLength, truncated, title, cleaned, filename,
                   sanitized, renameVars, extractVars, tools, pageIndex, ocrContent,
                   mainVars>>

\* main ends the process, by os.Exit or by returning, after the call returned
ExitAfterOCR ==
    /\ pc = "ocrReturned"
    /\ pc' = "exited"
    /\ UNCHANGED <<content, maxContentLength, truncated, title, cleaned, filename,
                   sanitized, renameVars, extractVars, ocrVars, mainVars>>

NextOCR ==
    \/ MkdirTemp
    \/ Pdftoppm
    \/ GlobPages
    \/ Tesseract
    \/ ReturnContent
    \/ DeferredRemoveAll
    \/ ExitAfterOCR

SpecOCR == InitOCR /\ [][NextOCR]_vars

-----------------------------------------------------------------------------
(* The call of extractTextFromPDF on documents whose text is about as long as *)
(* the threshold of the no-spaces test                                        *)

\* the long texts are within ThresholdSlack characters of noSpaceThreshold
ThresholdSlack == 2

\* the long texts are cut into two pages after this many characters
SplitAt == noSpaceThreshold \div 2

\* a space, a tab, a newline, and the three-byte typographic quote
MarkChars == { " ", "\t", "\n", "LDQUO" }

\* n letters, the p-th replaced by the character c
MarkedText(n, p, c) ==
    LET letters == Filler(n) IN [i \in 1..n |-> IF i = p THEN c ELSE letters[i]]

LongTexts ==
    UNION { { Filler(n) } \cup
            { MarkedText(n, p, c) : p \in { 1, SplitAt, SplitAt + 1, n },
                                    c \in MarkChars } :
            n \in (noSpaceThreshold - ThresholdSlack)..
                  (noSpaceThreshold + ThresholdSlack) }

\* each long text on one page, and cut into two pages
LongDocuments ==
    { [opens |-> TRUE, pages |-> << TextPage(t) >>] : t \in LongTexts } \cup
    { [opens |-> TRUE,
       pages |-> << TextPage(SubSeq(t, 1, SplitAt)),
                    TextPage(SubSeq(t, SplitAt + 1, Len(t))) >>] : t \in LongTexts }

InitStandard ==
    /\ pc = "start"
    /\ OCRIdle
    /\ MainIdle
    /\ RenameIdle
    /\ ocr = FALSE
    /\ minContentLength = 10
    /\ pdf \in LongDocuments \cup Documents
    /\ calls = <<>>
    /\ stdResult = NotCalled
    /\ ocrResult = NotCalled
    /\ lastErr = nil
    /\ extracted = <<>>
    /\ extractErr = nil
    /\ content = <<>>
    /\ maxContentLength = 0
    /\ truncated = <<>>
    /\ title = <<>>
    /\ cleaned = <<>>
    /\ filename = <<>>
    /\ sanitized = <<>>

ExtractTextFromPDF ==
    /\ pc = "start"
    /\ calls = <<>>
    /\ pdf # <<>>
    /\ stdResult' = extractTextFromPDF(pdf)
    /\ calls' = << "standard" >>
    /\ pc' = "standardDone"
    /\ UNCHANGED <<content, maxContentLength, truncated, title, cleaned, filename,
                   sanitized, renameVars, ocr, minContentLength, pdf, ocrResult,
                   lastErr, extracted, extractErr,
                   ocrVars, mainVars>>

NextStandard == ExtractTextFromPDF

SpecStandard == InitStandard /\ [][NextStandard]_vars

-----------------------------------------------------------------------------
(* main: PreRun and Run.  The process is followed from the end of the flag    *)
(* parsing, with one argument on the command line, to its exit.  stage is the *)
(* step of main; pc is the position inside the function main has called.      *)

\* validModels, by the values of the constants of the openai package
validModels ==
    << "gpt-3.5-turbo", "gpt-3.5-turbo-0125", "gpt-3.5-turbo-1106",
       "gpt-3.5-turbo-16k", "gpt-4-turbo", "gpt-4-0125-preview",
       "gpt-4-1106-preview", "gpt-4-turbo-preview", "gpt-4-turbo-2024-04-09",
       "gpt-4", "gpt-4o", "gpt-4o-mini", "gpt-4-vision-preview" >>

validateModel(m) ==
    IF \E i \in DOMAIN validModels : validModels[i] = m THEN nil
    ELSE << "invalid model", m >>

\* a line on the standard output: the message and the value printed with it
Line(msg, arg) == [msg |-> msg, arg |-> arg]

\* the run after fmt.Print and os.Exit(status)
Exit(out, line, status) == [printed |-> Append(out, line), exitStatus |-> status]

\* mutant: the process exits without the message
FatalSilent(out, msg, err) == [printed |-> out, exitStatus |-> 1]

\* if err != nil { fmt.Printf("<msg>: %v\n", err); os.Exit(1) }
Fatal(out, msg, err) == Exit(out, Line(msg, err), 1)

\* mutant: Run goes on whatever the error is
proceedsAlways(err) == TRUE

\* the test err != nil of Run: the run goes on when there is no error
proceeds(err) == err = nil

\* the answers of CreateChatCompletion: an error, or the contents of the
\* messages of resp.Choices
APIError == [ok |-> FALSE, choices |-> <<>>]

APIReply(cs) == [ok |-> TRUE, choices |-> cs]

\* the contents of a message: empty, "a" in quotes, and "*"
ReplyTexts == { <<>>, << "\"", "a", "\"" >>, << "*" >> }

Replies ==
    { APIError, APIReply(<<>>) } \cup { APIReply(<< t >>) : t \in ReplyTexts }

\* generateOpenAITitle on content c, when the API answers resp
generateOpenAITitle(c, max, resp) ==
    IF c = <<>>
    THEN [panic |-> FALSE, sent |-> <<>>, text |-> <<>>,
          err |-> << "empty content provided for title generation" >>]
    ELSE LET t == truncateContent(c, max) IN
         IF t.panic
         THEN [panic |-> TRUE, sent |-> <<>>, text |-> <<>>, err |-> nil]
         ELSE IF ~resp.ok
         THEN [panic |-> FALSE, sent |-> t.text, text |-> <<>>,
               err |-> Wrap("OpenAI API error", << "CreateChatCompletion" >>)]
         ELSE IF Len(resp.choices) = 0 \/ resp.choices[1] = <<>>
         THEN [panic |-> FALSE, sent |-> t.text, text |-> <<>>,
               err |-> << "empty response from OpenAI API" >>]
         ELSE [panic |-> FALSE, sent |-> t.text,
               text |-> cleanTitle(resp.choices[1]), err |-> nil]

\* the first choice of the API, <<>> when there is none
FirstChoice(resp) == IF Len(resp.choices) = 0 THEN <<>> ELSE resp.choices[1]

\* the key given by --key and the key in the environment: none, or a key
Keys == { "", "sk" }

\* --model: the default, and a model that is not valid
Models == { "gpt-3.5-turbo", "davinci" }

\* --min-content-length: the default, and 0
MainMinLengths == { 10, 0 }

\* --max-content-length: the default, and -1
MainMaxLengths == { 3000, -1 }

\* args[0]: "s.p"
MainSource == << "s", ".", "p" >>

\* the directory of args[0]: the first j of the names safeRenameFile looks at
\* for the title "a" ("a.p", "a-1.p", ...) are files
MainDirectories ==
    LET names == CandidateNames(<< "a" >>, MainSource) IN
    { [n \in {MainSource} \cup {names[k] : k \in 0..(j - 1)} |-> "file"] :
          j \in 0..MaxCounter }

InitMain ==
    /\ stage = "preRun"
    /\ pc = "main"
    /\ OCRIdle
    /\ apiKey \in Keys
    /\ envKey \in Keys
    /\ model \in Models
    /\ filePath = MainSource
    /\ titleErr = nil
    /\ printed = <<>>
    /\ exitStatus = -1
    /\ ocr \in BOOLEAN
    /\ minContentLength \in MainMinLengths
    /\ maxContentLength \in MainMaxLengths
    /\ pdf = <<>>
    /\ calls = <<>>
    /\ stdResult = NotCalled
    /\ ocrResult = NotCalled
    /\ lastErr = nil
    /\ extracted = <<>>
    /\ extractErr = nil
    /\ srcName = <<>>
    /\ files \in MainDirectories
    /\ filesBefore = files
    /\ newPath = <<>>
    /\ counter = 0
    /\ renameErr = ""
    /\ content = <<>>
    /\ truncated = <<>>
    /\ title = <<>>
    /\ cleaned = <<>>
    /\ filename = <<>>
    /\ sanitized = <<>>

\* PreRun: the key, then the model; Run starts with the call of extractPDFContent
PreRun ==
    /\ stage = "preRun"
    /\ LET key  == IF apiKey = "" THEN envKey ELSE apiKey
           merr == validateModel(model)
       IN  /\ apiKey' = key
           /\ IF key = ""
              THEN LET end == Exit(printed,
                                   Line("Error: API key required. Use --key or set OPENAI_API_KEY",
                                        <<>>), 1)
                   IN  /\ printed' = end.printed
                       /\ exitStatus' = end.exitStatus
                       /\ stage' = "exited"
                       /\ UNCHANGED pc
              ELSE IF merr # nil
              THEN LET end == Exit(printed, Line("invalid model", merr), 1)
                   IN  /\ printed' = end.printed
                       /\ exitStatus' = end.exitStatus
                       /\ stage' = "exited"
                       /\ UNCHANGED pc
              ELSE /\ stage' = "extract"
                   /\ pc' = "start"
                   /\ UNCHANGED <<printed, exitStatus>>
    /\ UNCHANGED <<content, maxContentLength, truncated, title, cleaned, filename,
                   sanitized, renameVars, extractVars, ocrVars, envKey, model,
                   filePath, titleErr>>

\* Run: extractPDFContent returned an error
ExtractionFailed ==
    /\ stage = "extract"
    /\ pc \in {"extracted", "extractFailed"}
    /\ ~proceeds(extractErr)
    /\ LET end == Fatal(printed, "PDF processing error", extractErr)
       IN  /\ printed' = end.printed
           /\ exitStatus' = end.exitStatus
    /\ stage' = "exited"
    /\ pc' = "main"
    /\ UNCHANGED <<content, maxContentLength, truncated, title, cleaned, filename,
                   sanitized, renameVars, extractVars, ocrVars, apiKey, envKey,
                   model, filePath, titleErr>>

\* Run: the call of generateOpenAITitle on the text extractPDFContent returned
GenerateOpenAITitle ==
    /\ stage = "extract"
    /\ pc \in {"extracted", "extractFailed"}
    /\ proceeds(extractErr)
    /\ \E resp \in Replies :
         LET r == generateOpenAITitle(extracted, maxContentLength, resp) IN
           /\ content' = extracted
           /\ truncated' = r.sent
           /\ title' = IF r.panic \/ extracted = <<>> THEN <<>> ELSE FirstChoice(resp)
           /\ cleaned' = r.text
           /\ titleErr' = r.err
           /\ pc' = IF r.panic THEN "panicked" ELSE "main"
    /\ stage' = "title"
    /\ UNCHANGED <<maxContentLength, filename, sanitized, renameVars, extractVars,
                   ocrVars, apiKey, envKey, model, filePath, printed, exitStatus>>

\* a run-time panic: the Go runtime writes the panic and exits with status 2
PanicExit ==
    /\ stage \in {"title", "rename"}
    /\ pc = "panicked"
    /\ LET end == Exit(printed,
                       Line("panic: runtime error: slice bounds out of range", <<>>), 2)
       IN  /\ printed' = end.printed
           /\ exitStatus' = end.exitStatus
    /\ stage' = "exited"
    /\ pc' = "main"
    /\ UNCHANGED <<content, maxContentLength, truncated, title, cleaned, filename,
                   sanitized, renameVars, extractVars, ocrVars, apiKey, envKey,
                   model, filePath, titleErr>>

\* Run: generateOpenAITitle returned an error
TitleFailed ==
    /\ stage = "title"
    /\ pc = "main"
    /\ ~proceeds(titleErr)
    /\ LET end == Fatal(printed, "Title generation failed", titleErr)
       IN  /\ printed' = end.printed
           /\ exitStatus' = end.exitStatus
    /\ stage' = "exited"
    /\ UNCHANGED <<pc, content, maxContentLength, truncated, title, cleaned, filename,
                   sanitized, renameVars, extractVars, ocrVars, apiKey, envKey,
                   model, filePath, titleErr>>

\* Run: the title is printed and safeRenameFile(filePath, title) is called
PrintTitle ==
    /\ stage = "title"
    /\ pc = "main"
    /\ proceeds(titleErr)
    /\ printed' = Append(printed, Line("Generated title", cleaned))
    /\ filename' = cleaned
    /\ srcName' = filePath
    /\ stage' = "rename"
    /\ pc' = "start"
    /\ UNCHANGED <<content, maxContentLength, truncated, title, cleaned, sanitized,
                   files, filesBefore, newPath, counter, renameErr, extractVars,
                   ocrVars, apiKey, envKey, model, filePath, titleErr, exitStatus>>

\* Run: safeRenameFile returned an error
RenamingFailed ==
    /\ stage = "rename"
    /\ pc \in {"renamed", "renameFailed"}
    /\ ~proceeds(IF renameErr = "" THEN nil ELSE << renameErr >>)
    /\ LET end == Fatal(printed, "Renaming failed", << renameErr >>)
       IN  /\ printed' = end.printed
           /\ exitStatus' = end.exitStatus
    /\ stage' = "exited"
    /\ pc' = "main"
    /\ UNCHANGED <<content, maxContentLength, truncated, title, cleaned, filename,
                   sanitized, renameVars, extractVars, ocrVars, apiKey, envKey,
                   model, filePath, titleErr>>

\* Run: the two names are printed, Execute returns nil and main returns
PrintRenamed ==
    /\ stage = "rename"
    /\ pc \in {"renamed", "renameFailed"}
    /\ proceeds(IF renameErr = "" THEN nil ELSE << renameErr >>)
    /\ LET end == Exit(printed,
                       Line("Successfully renamed", srcName \o << " → " >> \o newPath), 0)
       IN  /\ printed' = end.printed
           /\ exitStatus' = end.exitStatus
    /\ stage' = "exited"
    /\ pc' = "main"
    /\ UNCHANGED <<content, maxContentLength, truncated, title, cleaned, filename,
                   sanitized, renameVars, extractVars, ocrVars, apiKey, envKey,
                   model, filePath, titleErr>>

NextMain ==
    \/ PreRun
    \/ ExtractPDFContent
    \/ ForcedOCR
    \/ TryStandard
    \/ TryOCR
    \/ AllFailed
    \/ ExtractionFailed
    \/ GenerateOpenAITitle
    \/ PanicExit
    \/ TitleFailed
    \/ PrintTitle
    \/ SafeRenameFile
    \/ GenerateUniqueName
    \/ RenameFile
    \/ RenamingFailed
    \/ PrintRenamed

SpecMain == InitMain /\ [][NextMain]_vars

-----------------------------------------------------------------------------
(* Claims about truncateContent, checked under SpecTruncate *)

\* the call has ended, by a return or by a panic
TruncateEnded == pc \in {"truncated", "panicked"}

\* maxContentLength - len(truncationSuffix)
budget == maxContentLength - Len(truncationSuffix)

\* the number of places at which m occurs in s
Occurrences(s, m) ==
    Cardinality({i \in 0..(Len(s) - Len(m)) : SubSeq(s, i + 1, i + Len(m)) = m})

\* C1: content no longer than the configured maximum is returned unchanged.
C1_Identity ==
    (TruncateEnded /\ Len(content) <= maxContentLength)
        => (pc = "truncated" /\ truncated = content)

C1_Witness ==
    /\ pc = "truncated"
    /\ Len(content) = maxContentLength
    /\ budget >= 2
    /\ truncated = content

\* C2: the returned text is never longer than the configured maximum, and a
\* head + suffix + tail result is exactly that long when the budget is even.
C2_LengthBounded ==
    pc = "truncated" =>
        /\ Len(truncated) <= maxContentLength
        /\ (Len(content) > maxContentLength /\ budget >= 2 /\ budget % 2 = 0)
               => Len(truncated) = maxContentLength

C2_Witness ==
    /\ pc = "truncated"
    /\ Len(content) > maxContentLength
    /\ budget >= 2
    /\ budget % 2 = 1
    /\ Len(truncated) = maxContentLength - 1

\* C3, as claimed: content longer than the maximum, cut with a budget of at least
\* 2, gives an output that holds the truncation marker exactly once.
C3_MarkerExactlyOnce ==
    (pc = "truncated" /\ Len(content) > maxContentLength /\ budget >= 2)
        => Occurrences(truncated, truncationSuffix) = 1

\* C3, amended: the output holds the marker at least once, and exactly once when
\* neither the kept head nor the kept tail of the content holds the marker.
C3_MarkerOnceUnlessKept ==
    (pc = "truncated" /\ Len(content) > maxContentLength /\ budget >= 2)
        => LET keep == budget \div 2
               head == SubSeq(content, 1, keep)
               tail == SubSeq(content, Len(content) - keep + 1, Len(content))
           IN  /\ Occurrences(truncated, truncationSuffix) >= 1
               /\ (Occurrences(head, truncationSuffix) = 0
                   /\ Occurrences(tail, truncationSuffix) = 0)
                      => Occurrences(truncated, truncationSuffix) = 1

\* the content holds the marker in the part that is dropped
C3_Witness ==
    /\ pc = "truncated"
    /\ Len(content) > maxContentLength
    /\ budget >= 2
    /\ Occurrences(content, truncationSuffix) = 1
    /\ Occurrences(truncated, truncationSuffix) = 1

\* C4: content longer than the maximum, with a budget of at least 2, comes back as
\* its first budget/2 characters, the marker, and its last budget/2 characters.
C4_HeadSuffixTail ==
    (TruncateEnded /\ Len(content) > maxContentLength /\ budget >= 2)
        => LET keep == budget \div 2 IN
           /\ pc = "truncated"
           /\ Len(truncated) = keep + Len(truncationSuffix) + keep
           /\ \A i \in 1..keep : truncated[i] = content[i]
           /\ \A j \in 1..Len(truncationSuffix) :
                  truncated[keep + j] = truncationSuffix[j]
           /\ \A i \in 1..keep :
                  truncated[keep + Len(truncationSuffix) + i]
                      = content[Len(content) - keep + i]

\* the middle of the content is dropped
C4_Witness ==
    /\ pc = "truncated"
    /\ Len(content) > maxContentLength
    /\ budget >= 4
    /\ Len(content) > 2 * (budget \div 2) + 1
    /\ truncated[1] = content[1]
    /\ truncated[Len(truncated)] = content[Len(content)]

\* C5: with a budget below 2, content longer than the maximum comes back as its
\* leading maxContentLength characters, for every maximum the flag accepts; the
\* call never panics.
C5_SmallBudgetNoCrash ==
    (TruncateEnded /\ Len(content) > maxContentLength /\ budget < 2)
        => /\ pc = "truncated"
           /\ truncated = SubSeq(content, 1, maxContentLength)

\* the small-budget case with a maximum that is not negative
C5_Witness ==
    /\ pc = "truncated"
    /\ Len(content) > maxContentLength
    /\ budget < 2
    /\ maxContentLength > 0
    /\ truncated = SubSeq(content, 1, maxContentLength)

-----------------------------------------------------------------------------
(* Claims about cleanTitle, checked under SpecClean *)

\* straight and typographic single and double quotes
QuoteChars == { "\"", "'", "LDQUO", "RDQUO", "LSQUO", "RSQUO" }

\* the six steps in the order the specification gives them: strip, fold newlines,
\* split camel case, space the hyphens, collapse whitespace, trim
cleanTitleSpecOrder(t) ==
    TrimSpace(CollapseSpace(SpaceDashes(SplitCamel(ReplaceNewlines(Trim(t, TrimCutset))))))

\* C6: cleanTitle is idempotent: cleaning a cleaned title changes nothing.
C6_Idempotent ==
    pc = "cleaned" => cleanTitle(cleaned) = cleaned

\* a title the first call changes and the second leaves alone
C6_Witness ==
    /\ pc = "cleaned"
    /\ cleaned # title
    /\ cleaned # <<>>
    /\ cleanTitle(cleaned) = cleaned

\* C7: cleanTitle returns what the six steps give in the specified order, hyphen
\* spacing before the whitespace collapse; "FooBar" gives "Foo Bar" and the quoted,
\* dated example gives "2024.03.31 - John Doe - Title".
C7_StepsInSpecOrder ==
    pc = "cleaned" =>
        /\ cleaned = cleanTitleSpecOrder(title)
        /\ title = ExampleCamel => cleaned = << "F", "o", "o", " ", "B", "a", "r" >>
        /\ title = ExampleDated =>
               cleaned = << "2", "0", "2", "4", ".", "0", "3", ".", "3", "1", " ",
                            "-", " ", "J", "o", "h", "n", " ", "D", "o", "e", " ",
                            "-", " ", "T", "i", "t", "l", "e" >>

\* the dated example comes out as the specification says
C7_Witness ==
    /\ pc = "cleaned"
    /\ title = ExampleDated
    /\ cleaned = cleanTitleSpecOrder(title)
    /\ Len(cleaned) = 29

\* C8: every hyphen of the result has exactly one space before it and exactly one
\* space after it.
C8_OneSpaceAroundHyphens ==
    pc = "cleaned" =>
        \A i \in 1..Len(cleaned) :
            cleaned[i] = "-" =>
                /\ i > 1 /\ cleaned[i - 1] = " "
                /\ (i > 2 => cleaned[i - 2] \notin UnicodeSpace)
                /\ i < Len(cleaned) /\ cleaned[i + 1] = " "
                /\ (i + 2 <= Len(cleaned) => cleaned[i + 2] \notin UnicodeSpace)

\* a hyphen written without spaces between two words gets one space on each side
C8_Witness ==
    /\ pc = "cleaned"
    /\ title = << "a", "-", "B" >>
    /\ cleaned = << "a", " ", "-", " ", "B" >>

\* C9: the result neither begins nor ends with a straight quote, a typographic
\* quote or a whitespace character.
C9_NoQuoteOrSpaceAtEnds ==
    (pc = "cleaned" /\ cleaned # <<>>) =>
        /\ cleaned[1] \notin QuoteChars \cup UnicodeSpace
        /\ cleaned[Len(cleaned)] \notin QuoteChars \cup UnicodeSpace

\* straight quotes and spaces around a title are stripped
C9_Witness ==
    /\ pc = "cleaned"
    /\ title = << "\"", "a", "\"", " " >>
    /\ cleaned = << "a" >>

-----------------------------------------------------------------------------
(* Claims about sanitizeFilename, checked under SpecSanitize *)

\* the characters of the title that are not illegal, in their order
LegalPart(t) == SelectSeq(t, LAMBDA c : c \notin sanitizeRegex)

AllSpace(s) == \A i \in 1..Len(s) : s[i] \in UnicodeSpace

\* C10: the result holds none of < > : " / \ | ? * and, unless the legal part of
\* the title is all whitespace, the result is that legal part in its order, less
\* the whitespace trimmed at its ends and what the length cap cuts off.
C10_NoIllegalCharsOrderKept ==
    pc = "sanitized" =>
        /\ \A i \in 1..Len(sanitized) : sanitized[i] \notin sanitizeRegex
        /\ ~AllSpace(LegalPart(filename)) =>
               \E k \in 0..Len(LegalPart(filename)) :
                   LET legal == LegalPart(filename)
                       after == k + Len(sanitized)
                   IN  /\ after <= Len(legal)
                       /\ sanitized = SubSeq(legal, k + 1, after)
                       /\ AllSpace(SubSeq(legal, 1, k))
                       /\ (k < Len(legal) => legal[k + 1] \notin UnicodeSpace)
                       /\ \/ Len(sanitized) = maxFilenameLength
                          \/ /\ AllSpace(SubSeq(legal, after + 1, Len(legal)))
                             /\ sanitized[Len(sanitized)] \notin UnicodeSpace
        /\ filename = ExampleTrimSpaces =>
               sanitized = << "M", "y", " ", "D", "o", "c", "u", "m", "e", "n", "t" >>

\* illegal characters between letters are removed and the letters keep their order
C10_Witness ==
    /\ pc = "sanitized"
    /\ filename = ExampleInvalidChars
    /\ Len(sanitized) = 27
    /\ sanitized[1] = "i"
    /\ sanitized[6] = "i"

\* C11: the result is at most maxFilenameLength characters long, and a title whose
\* legal part, trimmed, is longer than that comes back as exactly its first
\* maxFilenameLength characters.
C11_HardCutAtMaxLength ==
    pc = "sanitized" =>
        LET trimmed == TrimSpace(LegalPart(filename)) IN
        /\ Len(sanitized) <= maxFilenameLength
        /\ Len(trimmed) > maxFilenameLength =>
               /\ Len(sanitized) = maxFilenameLength
               /\ \A i \in 1..maxFilenameLength : sanitized[i] = trimmed[i]

\* a title one character too long, after an illegal character is removed
C11_Witness ==
    /\ pc = "sanitized"
    /\ Len(filename) = maxFilenameLength + 2
    /\ Len(TrimSpace(LegalPart(filename))) = maxFilenameLength + 1
    /\ Len(sanitized) = maxFilenameLength

\* C30: the result has no whitespace at its start or its end, also when the
\* length cap cut it, and sanitizing the result again gives the result.
C30_TrimmedAndIdempotent ==
    pc = "sanitized" =>
        /\ sanitized[1] \notin UnicodeSpace
        /\ sanitized[Len(sanitized)] \notin UnicodeSpace
        /\ sanitizeFilename(sanitized) = sanitized

\* a long title is cut inside a word: the result is trimmed and stays as it is
\* when sanitized again
C30_Witness ==
    /\ pc = "sanitized"
    /\ filename = << " " >> \o Filler(maxFilenameLength + 1) \o << " " >>
    /\ sanitized = Filler(maxFilenameLength)
    /\ sanitizeFilename(sanitized) = sanitized

-----------------------------------------------------------------------------
(* Claims about safeRenameFile and generateUniqueName, checked under SpecRename *)

\* safeRenameFile is past sanitizeFilename and its test of the result
PastSanitize == pc \in {"unique", "rename", "renamed", "renameFailed"}

\* an entry was in the directory at this name when safeRenameFile was called
EntryExists(name) == IsDirectoryItself(name) \/ name \in DOMAIN filesBefore

\* desiredBaseName.extension for k = 0, desiredBaseName-k.extension otherwise
DesiredName(k) ==
    IF k = 0 THEN sanitized \o Ext(srcName)
    ELSE sanitized \o << "-" >> \o Itoa(k) \o Ext(srcName)

\* C12: sanitizeFilename never returns the empty string: a title that is empty
\* once illegal characters and surrounding whitespace are removed gives
\* "untitled-document", and safeRenameFile never fails with the error
\* 'generated title results in invalid filename'.
C12_NeverEmptyName ==
    PastSanitize =>
        /\ sanitized # <<>>
        /\ renameErr # "generated title results in invalid filename"
        /\ TrimSpace(LegalPart(filename)) = <<>> => sanitized = untitledDocument

\* a title of illegal characters only: the file is renamed to the fallback name
C12_Witness ==
    /\ pc = "renamed"
    /\ filename = << "*", "*" >>
    /\ sanitized = untitledDocument
    /\ newPath = untitledDocument \o Ext(srcName)
    /\ newPath \in DOMAIN files

\* C13: the resolver returns desiredBaseName.extension when nothing is there, and
\* otherwise desiredBaseName-k.extension for the smallest k >= 1 at which nothing
\* is; nothing is at the path it returns.  (Stated for names that need no cut to
\* maxFilenameLength.)
C13_SmallestFreeCounter ==
    (pc = "rename" /\ Len(sanitized \o Ext(srcName)) <= maxFilenameLength) =>
        /\ ~EntryExists(newPath)
        /\ \E k \in 0..(MaxCounter + 1) :
               /\ newPath = DesiredName(k)
               /\ \A j \in 0..(k - 1) : EntryExists(DesiredName(j))

\* "a.p" is taken by a regular file, "a-1.p" is free and is chosen
C13_Witness ==
    /\ pc = "rename"
    /\ sanitized = << "a" >>
    /\ srcName = << "s", ".", "p" >>
    /\ << "a", ".", "p" >> \in DOMAIN files
    /\ newPath = << "a", "-", "1", ".", "p" >>
    /\ newPath \notin DOMAIN files

\* C14: when safeRenameFile has returned, every entry the directory held before
\* the call, other than the source file, is still there.
C14_NothingOverwritten ==
    pc \in {"renamed", "renameFailed"} =>
        \A n \in DOMAIN filesBefore \ {srcName} :
            n \in DOMAIN files /\ files[n] = filesBefore[n]

\* the first name is taken by a regular file; the rename leaves it alone
C14_Witness ==
    /\ pc = "renamed"
    /\ counter >= 1
    /\ sanitized \o Ext(srcName) \in DOMAIN filesBefore \ {srcName}
    /\ \A n \in DOMAIN filesBefore \ {srcName} :
           n \in DOMAIN files /\ files[n] = filesBefore[n]

\* s ends with suffix
HasSuffix(s, suffix) ==
    /\ Len(s) >= Len(suffix)
    /\ SubSeq(s, Len(s) - Len(suffix) + 1, Len(s)) = suffix

PathSeparators == { "/", "\\" }

\* C24: whatever the title, path separators and ".." included, the path the file
\* is renamed to is a name directly in the directory of the original file, and it
\* ends with the extension of the original file.
C24_InDirectoryWithExtension ==
    pc \in {"rename", "renamed"} =>
        /\ ~IsDirectoryItself(newPath)
        /\ \A i \in DOMAIN newPath : newPath[i] \notin PathSeparators
        /\ HasSuffix(newPath, Ext(srcName))

\* the title "../a" gives the name "..a.p" in the directory of s.p
C24_Witness ==
    /\ pc = "renamed"
    /\ filename = << ".", ".", "/", "a" >>
    /\ srcName = << "s", ".", "p" >>
    /\ newPath = << ".", ".", "a", ".", "p" >>
    /\ newPath \in DOMAIN files

\* C27: the file name the file is renamed to is at most maxFilenameLength
\* characters long, also when it is a counter-suffixed name of generateUniqueName,
\* and computing it never panics, however long the extension is.
C27_NameWithinMaxLength ==
    /\ pc # "panicked"
    /\ pc \in {"rename", "renamed"} => Len(newPath) <= maxFilenameLength

\* a title of 120 letters is cut to make room for the extension
C27_Witness ==
    /\ pc = "renamed"
    /\ filename = Filler(maxFilenameLength)
    /\ srcName = << "s", ".", "p" >>
    /\ newPath = Filler(maxFilenameLength - 2) \o << ".", "p" >>
    /\ newPath \in DOMAIN files

\* C28: when the name of the source file already is the sanitized title with the
\* extension, safeRenameFile leaves the file at that path.
C28_RenameToOwnNameKeepsPath ==
    (pc = "renamed" /\ srcName = sanitized \o Ext(srcName)) =>
        /\ newPath = srcName
        /\ srcName \in DOMAIN files

\* the file a.p is renamed with the title "a"
C28_Witness ==
    /\ pc = "renamed"
    /\ filename = << "a" >>
    /\ srcName = << "a", ".", "p" >>
    /\ filesBefore = (srcName :> "file")

\* C29: the loop of generateUniqueName ends with a path, whatever os.Stat gives
\* for the candidates, the directory holding finitely many entries.
C29_UniqueNameLoopEnds ==
    (pc = "unique") ~> (pc = "rename")

\* the first name and the candidates 1 and 2 are taken, one of them by an entry
\* os.Stat fails on with another error; the loop ends at counter 3
C29_Witness ==
    /\ pc = "rename"
    /\ counter = MaxCounter + 1
    /\ \E n \in DOMAIN files : files[n] = "loop"

-----------------------------------------------------------------------------
(* Claims about extractPDFContent, checked under SpecExtract *)

\* extractPDFContent has returned
ExtractReturned == pc \in {"extracted", "extractFailed"}

\* the extractor returned r without error and r's text passes validateContentLength
Valid(r) ==
    r.called /\ r.err = nil /\ validateContentLength(r.text, minContentLength) = nil

\* C15: with OCR forced, the standard extractor is never called; OCR runs once,
\* its text is validated, and the function returns the OCR text, or fails with
\* the OCR error or the validation error itself, not wrapped in another error.
C15_ForcedOCROnly ==
    ocr =>
        /\ ~stdResult.called
        /\ \A i \in DOMAIN calls : calls[i] # "standard"
        /\ ExtractReturned =>
             /\ calls = << "OCR" >>
             /\ \/ /\ ocrResult.err # nil
                   /\ extractErr = ocrResult.err
                   /\ extracted = <<>>
                \/ /\ ocrResult.err = nil
                   /\ validateContentLength(ocrResult.text, minContentLength) # nil
                   /\ extractErr = ErrBelowMinimum
                   /\ extracted = <<>>
                \/ /\ Valid(ocrResult)
                   /\ extractErr = nil
                   /\ extracted = ocrResult.text

\* forced OCR fails in tesseract, and that error is what comes back
C15_Witness ==
    /\ ocr
    /\ pc = "extractFailed"
    /\ calls = << "OCR" >>
    /\ extractErr = << "tesseract failed", "exit status" >>

\* C16: OCR not forced, the standard extractor returns an error: OCR is tried, and
\* when its text passes validation that text is returned with no error; the
\* standard extractor's error does not reach the caller.
C16_StandardErrorFallsBackToOCR ==
    (ExtractReturned /\ ~ocr /\ stdResult.err # nil) =>
        /\ ocrResult.called
        /\ Valid(ocrResult) =>
             /\ pc = "extracted"
             /\ extracted = ocrResult.text
             /\ extractErr = nil

\* the PDF does not open and OCR reads ten letters
C16_Witness ==
    /\ ~ocr
    /\ pc = "extracted"
    /\ stdResult.err = << "failed to open PDF", "pdf.Open" >>
    /\ minContentLength = 10
    /\ extracted = Filler(10) \o << "\n" >>
    /\ extractErr = nil

\* C17: OCR not forced, the standard extractor returns without error a text that
\* is empty or fails validation: the validation failure is recorded in lastErr,
\* OCR is still tried, and its text is returned when it is valid.
C17_ShortStandardTextGoesOnToOCR ==
    (~ocr /\ stdResult.called /\ stdResult.err = nil /\ ~Valid(stdResult)) =>
        /\ pc # "extracted" \/ calls # << "standard" >>
        /\ calls = << "standard" >> => lastErr = ErrBelowMinimum
        /\ ExtractReturned =>
             /\ calls = << "standard", "OCR" >>
             /\ Valid(ocrResult) =>
                  /\ pc = "extracted"
                  /\ extracted = ocrResult.text
                  /\ extractErr = nil

\* the standard text is one letter, below a minimum of 2; OCR reads two words
C17_Witness ==
    /\ ~ocr
    /\ pc = "extracted"
    /\ minContentLength = 2
    /\ stdResult = Succeeded(<< "a" >>)
    /\ extracted = << "a", " ", "a", "\n" >>

\* the failure of the OCR attempt: its error, or the validation failure of its text
OCRFailure == IF ocrResult.err # nil THEN ocrResult.err ELSE ErrBelowMinimum

\* C18: OCR not forced and neither extractor gives a valid text: the function
\* fails, and its error wraps the last failure met, "all text extraction methods
\* failed" before the chain of that failure.
C18_AggregateWrapsLastFailure ==
    (ExtractReturned /\ ~ocr /\ ~Valid(stdResult) /\ ~Valid(ocrResult)) =>
        /\ pc = "extractFailed"
        /\ extracted = <<>>
        /\ calls = << "standard", "OCR" >>
        /\ extractErr = Wrap("all text extraction methods failed", OCRFailure)

\* the PDF does not open, and the OCR text is too short: the validation failure
\* is the one wrapped
C18_Witness ==
    /\ ~ocr
    /\ pc = "extractFailed"
    /\ stdResult.err = << "failed to open PDF", "pdf.Open" >>
    /\ ocrResult.err = nil
    /\ extractErr = Wrap("all text extraction methods failed", ErrBelowMinimum)

\* C19: whatever the configuration and the extractors' outcomes, a text that
\* extractPDFContent returns with success holds a character that is not whitespace.
C19_SuccessIsNotBlank ==
    pc = "extracted" => TrimSpace(extracted) # <<>>

\* with the default minimum, blank OCR pages are refused
C19_Witness ==
    /\ ocr
    /\ minContentLength = 10
    /\ pc = "extractFailed"
    /\ ocrResult = Succeeded(<< " ", "\n" >>)
    /\ extractErr = ErrBelowMinimum

\* the return of the extractor that was called last
LastResult == IF ocrResult.called THEN ocrResult ELSE stdResult

\* C23: success is reported only with a text that an extractor returned without
\* error and whose trimmed length is at least the minimum; a text whose trimmed
\* length equals the minimum is accepted, a shorter one is a validation failure
\* that comes back as an error value; the call never panics.
C23_SuccessMeetsMinimum ==
    /\ pc # "panicked"
    /\ pc = "extracted" =>
         /\ \E r \in {stdResult, ocrResult} :
                r.called /\ r.err = nil /\ extracted = r.text
         /\ ByteLen(TrimSpace(extracted)) >= minContentLength
         /\ extractErr = nil
    /\ (LastResult.called /\ LastResult.err = nil) =>
         IF ByteLen(TrimSpace(LastResult.text)) >= minContentLength
         THEN pc = "extracted" /\ extracted = LastResult.text
         ELSE /\ pc \in {"extractors", "extractFailed"}
              /\ extracted = <<>>
              /\ IF pc = "extractors" THEN lastErr = ErrBelowMinimum
                 ELSE extractErr \in
                        { ErrBelowMinimum,
                          Wrap("all text extraction methods failed", ErrBelowMinimum) }

\* ten letters with the default minimum of ten: accepted
C23_Witness ==
    /\ pc = "extracted"
    /\ minContentLength = 10
    /\ stdResult = Succeeded(Filler(10))
    /\ extracted = Filler(10)

\* with OCR not forced: the extractors called so far are none, the standard one,
\* or the standard one and then OCR; OCR has been called only after a standard
\* attempt that gave no valid text, and a return follows a standard attempt
AttemptsInOrder ==
    ~ocr =>
        /\ calls \in { <<>>, << "standard" >>, << "standard", "OCR" >> }
        /\ stdResult.called <=> calls # <<>>
        /\ ocrResult.called <=> Len(calls) = 2
        /\ ocrResult.called => ~Valid(stdResult)
        /\ ExtractReturned => stdResult.called

\* C25: without forced OCR the standard extractor is tried exactly once and
\* before OCR; OCR is tried at most once, and only after the standard attempt
\* errored or gave no valid text; nothing is tried twice; and every run ends in
\* success or in failure.
C25_OneAttemptEachThenEnd ==
    /\ []AttemptsInOrder
    /\ (~ocr) ~> ExtractReturned

\* the standard attempt fails, OCR is tried once and succeeds
C25_Witness ==
    /\ ~ocr
    /\ calls = << "standard", "OCR" >>
    /\ stdResult.err # nil
    /\ pc = "extracted"

-----------------------------------------------------------------------------
(* Claims about extractTextFromPDF, checked under SpecStandard *)

\* the loop over the pages ran to its end: the file opened, it has pages, and no
\* page failed
PagesRead ==
    /\ pdf.opens
    /\ Len(pdf.pages) > 0
    /\ \A i \in DOMAIN pdf.pages : pdf.pages[i].kind # "error"

\* the concatenated text
Concatenated == PagesText(pdf.pages, Len(pdf.pages))

\* the call failed with the error of the no-spaces test
RejectedAsGarbled == stdResult.err = ErrNoSpaces

\* C20, as claimed: the concatenated text is rejected as garbled exactly when it is
\* longer than 500 characters and holds no whitespace character at all.
C20_RejectedIffNoWhitespace ==
    (pc = "standardDone" /\ PagesRead) =>
        LET c == Concatenated IN
            RejectedAsGarbled <=>
                /\ Len(c) > noSpaceThreshold
                /\ \A i \in DOMAIN c : c[i] \notin UnicodeSpace

\* C20, amended: the concatenated text is rejected as garbled exactly when it is
\* longer than 500 bytes and holds no space character; a tab or a newline does
\* not keep it from being rejected, and nothing else is rejected by this test.
C20_RejectedIffNoSpace ==
    pc = "standardDone" =>
        LET c == Concatenated IN
            RejectedAsGarbled <=>
                /\ PagesRead
                /\ ByteLen(c) > noSpaceThreshold
                /\ \A i \in DOMAIN c : c[i] # " "

\* 501 letters in one page, with no space: rejected
C20_Witness ==
    /\ pc = "standardDone"
    /\ pdf.pages = << TextPage(Filler(noSpaceThreshold + 1)) >>
    /\ RejectedAsGarbled

-----------------------------------------------------------------------------
(* Claims about the steps of extractTextViaOCR, checked under SpecOCR *)

\* C21: once extractTextViaOCR has returned after making its temporary directory,
\* on success and on every failure, the directory is gone, and so it is when the
\* process has ended; the directory exists only while the call runs.
C21_TempDirRemovedOnReturn ==
    /\ (pc \in {"ocrReturned", "exited"} /\ tools.tempDir) => tempDir = "removed"
    /\ tempDir = "exists" => pc \in {"pdftoppm", "glob", "tesseract", "ocrDeferred"}
    /\ pc \in {"ocrReturned", "exited"} => ocrResult = extractTextViaOCR(tools)

\* tesseract fails on the second page image: the directory is removed
C21_Witness ==
    /\ pc = "ocrReturned"
    /\ pageIndex = 2
    /\ ocrResult.err = << "tesseract failed", "exit status" >>
    /\ tempDir = "removed"

-----------------------------------------------------------------------------
(* Claims about main, checked under SpecMain *)

\* the two lines of a run up to the call of os.Rename and after it
TitleLine == Line("Generated title", cleaned)

RenamedLine == Line("Successfully renamed", filePath \o << " → " >> \o newPath)

\* C22: a run that ends after a failure (no API key, extractPDFContent,
\* generateOpenAITitle or safeRenameFile returned an error) has printed the message
\* of that failure with the error last and exits with a non-zero status; a run
\* exits with status zero only without any of these errors and after printing the
\* generated title and then the two names of the rename; a run that has not
\* ended has no exit status.
C22_FailuresPrintedAndNonZero ==
    /\ stage # "exited" => exitStatus = -1
    /\ stage = "exited" =>
         /\ exitStatus \in {0, 1, 2}
         /\ printed # <<>>
         /\ apiKey = "" =>
              /\ exitStatus = 1
              /\ printed = << Line("Error: API key required. Use --key or set OPENAI_API_KEY",
                                   <<>>) >>
         /\ (apiKey # "" /\ validateModel(model) # nil) =>
              /\ exitStatus = 1
              /\ printed = << Line("invalid model", validateModel(model)) >>
         /\ extractErr # nil =>
              /\ exitStatus = 1
              /\ printed = << Line("PDF processing error", extractErr) >>
         /\ titleErr # nil =>
              /\ exitStatus = 1
              /\ printed = << Line("Title generation failed", titleErr) >>
         /\ renameErr # "" =>
              /\ exitStatus = 1
              /\ printed = << TitleLine, Line("Renaming failed", << renameErr >>) >>
         /\ exitStatus = 0 =>
              /\ apiKey # ""
              /\ validateModel(model) = nil
              /\ extractErr = nil
              /\ titleErr = nil
              /\ renameErr = ""
              /\ printed = << TitleLine, RenamedLine >>

\* the API answers with no text after OCR was the second extractor tried: the run
\* ends with the message of the title generation and status 1
C22_Witness ==
    /\ stage = "exited"
    /\ calls = << "standard", "OCR" >>
    /\ titleErr = << "empty response from OpenAI API" >>
    /\ exitStatus = 1
    /\ printed[Len(printed)].msg = "Title generation failed"

\* C26: the directory changes at most once in a run, by the os.Rename of
\* safeRenameFile, and only when there is an API key, extractPDFContent and
\* generateOpenAITitle returned no error and the title was printed; when the run
\* ends without a key or after extractPDFContent, generateOpenAITitle or
\* safeRenameFile returned an error, the directory is as it was and the file is
\* at args[0].
C26_RenamedOnceAfterTitle ==
    /\ [][files' # files =>
            /\ files = filesBefore
            /\ stage = "rename"
            /\ pc = "rename"
            /\ apiKey # ""
            /\ calls # <<>>
            /\ extractErr = nil
            /\ titleErr = nil
            /\ printed = << TitleLine >>
            /\ files' = Renamed(files, filePath, newPath)]_vars
    /\ []((/\ stage = "exited"
           /\ (apiKey = "" \/ extractErr # nil \/ titleErr # nil \/ renameErr # ""))
          => (/\ files = filesBefore
              /\ filePath \in DOMAIN files
              /\ files[filePath] = "file"))

\* os.Rename refused the second name generateUniqueName tried: the run has ended
\* and the file is where it was
C26_Witness ==
    /\ stage = "exited"
    /\ counter = 2
    /\ renameErr = "could not rename file"
    /\ exitStatus = 1
    /\ files = filesBefore
    /\ filePath \in DOMAIN files

=============================================================================
